---- MODULE Spec2Model ----
(***************************************************************************)
(* The lexer of src/lexer/mod.rs as a state machine.  A character is a     *)
(* string; the input stream is a sequence of characters and the cursor    *)
(* `pos` counts the characters the Peekable stream has handed out.  One    *)
(* action per arm of the dispatcher in Iterator::next; each action is a    *)
(* whole call of next().                                                   *)
(***************************************************************************)
EXTENDS Integers, Sequences, FiniteSets, TLC

\* ------------------------------------------------------------------------
\* Characters
\* ------------------------------------------------------------------------
LF == "LF"        \* U+000A
CR == "CR"        \* U+000D
LS == "LS"        \* U+2028
PS == "PS"        \* U+2029
HT == "HT"        \* U+0009
SP == " "         \* U+0020
BSL == "\\"
DQ == "\""
SQ == "'"
NoChar == "None"  \* Option::None from peek() / next_char()

LineTerminators == {LF, CR, LS, PS}
WsChars == {HT, SP}
Digits == {"0", "1"}
ScalarChars == {"{", "}", "(", ")", "[", "]", ":", ",", "~", ";", "?"}
OperatorLeads == {"=", "!", "&", "|", "^", "+", "-", ">", "<", "%", "*"}

\* A variant that knows U+000A only, as next_char does.
is_line_terminator_lf(c) == c = LF

is_line_terminator(c) == c \in LineTerminators
is_ws(c) == c \in WsChars
is_digit(c) == c \in Digits

\* ------------------------------------------------------------------------
\* Bounds and the inputs explored
\* ------------------------------------------------------------------------
NumLen == 5
StrLen == 5
CmtLen == 5
OpLen == 4
MixLen == 2
PosLen == 4

NumChars == {"0", "1", ".", "e", "E", "+", "-"}
StrChars == {DQ, SQ, BSL, LF, CR, "a"}
CmtChars == {"/", "*", "a", LF}
OpChars == {">", "<", "=", "!", "*", "/"}
MixChars == LineTerminators \cup WsChars \cup Digits \cup ScalarChars
              \cup OperatorLeads \cup {"/", ".", DQ, SQ, BSL, "e", "a"}

PosChars == {SP, HT, CR, LF, "}", "/", "*"}

SeqsUpTo(S, n) == UNION {[1..k -> S] : k \in 0..n}

Inputs == SeqsUpTo(NumChars, NumLen) \cup SeqsUpTo(StrChars, StrLen)
            \cup SeqsUpTo(CmtChars, CmtLen) \cup SeqsUpTo(OpChars, OpLen)
            \cup SeqsUpTo(MixChars, MixLen) \cup SeqsUpTo(PosChars, PosLen)

\* ------------------------------------------------------------------------
\* State
\* ------------------------------------------------------------------------
VARIABLES input,    \* the characters of the stream (fixed)
          pos,      \* number of characters taken from the stream
          line,     \* Lexer.line
          column,   \* Lexer.column
          last,     \* what the most recent call of next() returned
          prev,     \* the lexer state when that call was made
          tokens,   \* the tokens returned so far, in order
          errored,  \* TRUE once some call of next() has returned an error
          calls     \* the number of calls of next() made so far, modulo 2

vars == <<input, pos, line, column, last, prev, tokens, errored, calls>>

\* The mutable part of the Lexer struct.
Lexer_new == [pos |-> 0, line |-> 1, column |-> 1]
cur == [pos |-> pos, line |-> line, column |-> column]

get_location(lx) == [line |-> lx.line, column |-> lx.column]

peek(lx) == IF lx.pos < Len(input) THEN input[lx.pos + 1] ELSE NoChar

\* A variant that resets the column at U+000A but forgets to count the line.
next_char_same_line(lx) ==
  LET c == peek(lx) IN
  IF c = NoChar THEN [c |-> NoChar, lx |-> lx]
  ELSE IF c = LF
       THEN [c |-> c, lx |-> [pos |-> lx.pos + 1, line |-> lx.line, column |-> 1]]
       ELSE [c |-> c, lx |-> [pos |-> lx.pos + 1, line |-> lx.line,
                              column |-> lx.column + 1]]

\* next_char: [c, lx], the character taken (or NoChar) and the state after.
next_char(lx) ==
  LET c == peek(lx) IN
  IF c = NoChar THEN [c |-> NoChar, lx |-> lx]
  ELSE IF c = LF
       THEN [c |-> c, lx |-> [pos |-> lx.pos + 1, line |-> lx.line + 1, column |-> 1]]
       ELSE [c |-> c, lx |-> [pos |-> lx.pos + 1, line |-> lx.line,
                              column |-> lx.column + 1]]

skip(lx) == next_char(lx).lx

\* push_while: [s, lx]; P is the set of characters the predicate accepts.
RECURSIVE push_while(_, _, _)
push_while(lx, s, P) ==
  LET x == peek(lx) IN
  IF x = NoChar \/ x \notin P THEN [s |-> s, lx |-> lx]
  ELSE push_while(skip(lx), Append(s, x), P)

\* ------------------------------------------------------------------------
\* Tokens, errors and results
\* ------------------------------------------------------------------------
TokenType(name, text, style) == [name |-> name, text |-> text, style |-> style]
Plain(name) == TokenType(name, <<>>, "")

\* A variant that stores the two coordinates the wrong way round.
Token_new_swapped(loc, typ) == [line |-> loc.column, column |-> loc.line, typ |-> typ]

Token_new(loc, typ) == [line |-> loc.line, column |-> loc.column, typ |-> typ]

NoToken == [line |-> 0, column |-> 0, typ |-> Plain("")]
NoError == [kind |-> "", line |-> 0, column |-> 0, c |-> NoChar]

unexpected_char(lx, c) ==
  [kind |-> "UnexpectedCharacter", line |-> lx.line, column |-> lx.column, c |-> c]

unexpected_eof(lx) ==
  [kind |-> "UnexpectedEndOfInput", line |-> lx.line, column |-> lx.column, c |-> NoChar]

\* A routine returning Result<Token, LexError>, with the lexer state after it.
Ok(tok, lx) == [kind |-> "Ok", tok |-> tok, err |-> NoError, lx |-> lx]
Err(e, lx) == [kind |-> "Err", tok |-> NoToken, err |-> e, lx |-> lx]
\* A routine returning Result<String, LexError> or Result<TokenType, LexError>.
OkVal(v, lx) == [kind |-> "Ok", val |-> v, err |-> NoError, lx |-> lx]
ErrVal(e, lx) == [kind |-> "Err", val |-> <<>>, err |-> e, lx |-> lx]

\* Result<TokenType, LexError>::map(|x| Token::new(loc, x))
MapToken(r, loc) ==
  IF r.kind = "Ok" THEN Ok(Token_new(loc, r.val), r.lx) ELSE Err(r.err, r.lx)

\* ------------------------------------------------------------------------
\* Sub-scanners
\* ------------------------------------------------------------------------
\* A variant that forgets to consume the character.
scalar_noskip(lx, loc, typ) == Ok(Token_new(loc, typ), lx)

scalar(lx, loc, typ) == Ok(Token_new(loc, typ), skip(lx))

\* The loop of the MultiLine arm of comment().
RECURSIVE comment_loop(_, _)
comment_loop(lx, s) ==
  LET n1 == next_char(lx) IN
  IF n1.c = "*"
  THEN LET n2 == next_char(n1.lx) IN
       IF n2.c = "/" THEN OkVal(s, n2.lx)
       ELSE IF n2.c = NoChar THEN ErrVal(unexpected_eof(n2.lx), n2.lx)
       ELSE comment_loop(n2.lx, s \o <<"*", n2.c>>)
  ELSE IF n1.c = NoChar THEN ErrVal(unexpected_eof(n1.lx), n1.lx)
  ELSE comment_loop(n1.lx, Append(s, n1.c))

comment(lx, loc, style) ==
  LET lx1 == skip(lx) IN
  IF style = "SingleLine"
  THEN LET w == push_while(lx1, <<>>, LineTerminators) IN
       Ok(Token_new(loc, TokenType("Comment", w.s, style)), w.lx)
  ELSE LET r == comment_loop(lx1, <<>>) IN
       IF r.kind = "Ok"
       THEN Ok(Token_new(loc, TokenType("Comment", r.val, style)), r.lx)
       ELSE Err(r.err, r.lx)

\* A variant that takes the first whitespace character only.
ws_one(lx) == OkVal(TokenType("WhiteSpace", <<peek(lx)>>, ""), skip(lx))

ws(lx) ==
  LET w == push_while(lx, <<>>, WsChars) IN
  OkVal(TokenType("WhiteSpace", w.s, ""), w.lx)

\* A variant that decodes: it returns the escaped character without the
\* backslash.
escape_decoded(lx) ==
  LET n == next_char(lx) IN
  IF n.c = NoChar THEN ErrVal(unexpected_eof(n.lx), n.lx)
  ELSE IF n.c = CR /\ peek(n.lx) = LF THEN OkVal(<<CR, LF>>, skip(n.lx))
  ELSE OkVal(<<n.c>>, n.lx)

\* A variant without the CR LF case: every escape is the backslash and one
\* character.
escape_single(lx) ==
  LET n == next_char(lx) IN
  IF n.c = NoChar THEN ErrVal(unexpected_eof(n.lx), n.lx)
  ELSE OkVal(<<BSL, n.c>>, n.lx)

escape_or_line_continuation(lx) ==
  LET n == next_char(lx) IN
  IF n.c = NoChar THEN ErrVal(unexpected_eof(n.lx), n.lx)
  ELSE IF is_line_terminator(n.c)
       THEN IF n.c = CR /\ peek(n.lx) = LF
            THEN OkVal(<<BSL, CR, LF>>, skip(n.lx))
            ELSE OkVal(<<BSL, n.c>>, n.lx)
       ELSE IF n.c = DQ \/ n.c = SQ THEN OkVal(<<BSL, n.c>>, n.lx)
       ELSE IF n.c = BSL THEN OkVal(<<BSL, BSL>>, n.lx)
       ELSE OkVal(<<BSL, n.c>>, n.lx)

QuoteChar(quote) == IF quote = "Double" THEN DQ ELSE SQ

\* The loop of string().
RECURSIVE string_loop(_, _, _)
string_loop(lx, s, quote) ==
  LET n == next_char(lx) IN
  IF n.c = DQ /\ quote = "Double" THEN OkVal(s, n.lx)
  ELSE IF n.c = SQ /\ quote = "Single" THEN OkVal(s, n.lx)
  ELSE IF n.c = BSL
       THEN LET e == escape_or_line_continuation(n.lx) IN
            IF e.kind = "Ok" THEN string_loop(e.lx, s \o e.val, quote)
            ELSE ErrVal(e.err, e.lx)
  ELSE IF n.c = NoChar THEN ErrVal(unexpected_eof(n.lx), n.lx)
  ELSE IF is_line_terminator(n.c) THEN ErrVal(unexpected_char(n.lx, n.c), n.lx)
  ELSE string_loop(n.lx, Append(s, n.c), quote)

string(lx, quote) ==
  LET r == string_loop(skip(lx), <<>>, quote) IN
  IF r.kind = "Ok" THEN OkVal(TokenType("String", r.val, quote), r.lx)
  ELSE ErrVal(r.err, r.lx)

decimal(lx) ==
  LET lx1 == skip(lx)
      c == peek(lx1)
  IN IF c = NoChar THEN ErrVal(unexpected_eof(lx1), lx1)
     ELSE IF is_digit(c)
          THEN LET w == push_while(skip(lx1), <<c>>, Digits) IN OkVal(w.s, w.lx)
          ELSE ErrVal(unexpected_char(lx1, c), lx1)

exponent(lx) ==
  LET lx1 == skip(lx)
      c == peek(lx1)
      signed == c = "+" \/ c = "-"
      lx2 == IF signed THEN skip(lx1) ELSE lx1
      s2 == IF signed THEN <<c>> ELSE <<>>
      n == next_char(lx2)
  IN IF n.c = NoChar THEN ErrVal(unexpected_eof(n.lx), n.lx)
     ELSE IF is_digit(n.c)
          THEN LET w == push_while(n.lx, Append(s2, n.c), Digits) IN OkVal(w.s, w.lx)
          ELSE ErrVal(unexpected_char(n.lx, n.c), n.lx)

digit(lx) ==
  LET i == push_while(lx, <<>>, Digits)
      d == IF peek(i.lx) = "." THEN decimal(i.lx) ELSE OkVal(<<>>, i.lx)
  IN IF d.kind = "Err" THEN ErrVal(d.err, d.lx)
     ELSE LET e == IF peek(d.lx) \in {"e", "E"} THEN exponent(d.lx)
                   ELSE OkVal(<<>>, d.lx)
          IN IF e.kind = "Err" THEN ErrVal(e.err, e.lx)
             ELSE OkVal(TokenType("Number", i.s \o d.val \o e.val, ""), e.lx)

slash(lx, loc) ==
  LET lx1 == skip(lx)
      c == peek(lx1)
  IN IF c = "/" THEN comment(lx1, loc, "SingleLine")
     ELSE IF c = "*" THEN comment(lx1, loc, "MultiLine")
     ELSE IF c = "=" THEN scalar(lx1, loc, Plain("DivEqual"))
     ELSE scalar(lx1, loc, Plain("Div"))

period(lx, loc) ==
  LET lx1 == skip(lx)
      c == peek(lx1)
  IN IF c = "."
     THEN LET n == next_char(skip(lx1)) IN
          IF n.c = "." THEN Ok(Token_new(loc, Plain("Ellipsis")), n.lx)
          ELSE IF n.c = NoChar THEN Err(unexpected_eof(n.lx), n.lx)
          ELSE Err(unexpected_char(n.lx, n.c), n.lx)
     ELSE IF c # NoChar /\ is_digit(c)
          THEN LET d == decimal(lx1) IN
               IF d.kind = "Ok"
               THEN Ok(Token_new(loc, TokenType("Number", d.val, "")), d.lx)
               ELSE Err(d.err, d.lx)
     ELSE Ok(Token_new(loc, Plain("Period")), lx1)

\* ------------------------------------------------------------------------
\* Operator sub-scanners: each returns the TokenType and the state after
\* ------------------------------------------------------------------------
equal(lx) ==
  LET lx1 == skip(lx) IN
  IF peek(lx1) = ">" THEN OkVal(Plain("Arrow"), skip(lx1))
  ELSE IF peek(lx1) = "="
       THEN LET lx2 == skip(lx1) IN
            IF peek(lx2) = "=" THEN OkVal(Plain("TripleEquals"), skip(lx2))
            ELSE OkVal(Plain("DoubleEquals"), lx2)
  ELSE OkVal(Plain("Equals"), lx1)

bang(lx) ==
  LET lx1 == skip(lx) IN
  IF peek(lx1) = "="
  THEN LET lx2 == skip(lx1) IN
       IF peek(lx2) = "=" THEN OkVal(Plain("NotTripleEquals"), skip(lx2))
       ELSE OkVal(Plain("NotEquals"), lx2)
  ELSE OkVal(Plain("Bang"), lx1)

ampersand(lx) ==
  LET lx1 == skip(lx) IN
  IF peek(lx1) = "&" THEN OkVal(Plain("LogicalAnd"), skip(lx1))
  ELSE IF peek(lx1) = "=" THEN OkVal(Plain("BinaryAndEquals"), skip(lx1))
  ELSE OkVal(Plain("BinaryAnd"), lx1)

pipe(lx) ==
  LET lx1 == skip(lx) IN
  IF peek(lx1) = "|" THEN OkVal(Plain("LogicalOr"), skip(lx1))
  ELSE IF peek(lx1) = "=" THEN OkVal(Plain("BinaryOrEquals"), skip(lx1))
  ELSE OkVal(Plain("BinaryOr"), lx1)

caret(lx) ==
  LET lx1 == skip(lx) IN
  IF peek(lx1) = "=" THEN OkVal(Plain("BinaryXorEquals"), skip(lx1))
  ELSE OkVal(Plain("BinaryXor"), lx1)

minus(lx) ==
  LET lx1 == skip(lx) IN
  IF peek(lx1) = "-" THEN OkVal(Plain("Decrement"), skip(lx1))
  ELSE IF peek(lx1) = "=" THEN OkVal(Plain("MinusEquals"), skip(lx1))
  ELSE OkVal(Plain("Minus"), lx1)

plus(lx) ==
  LET lx1 == skip(lx) IN
  IF peek(lx1) = "+" THEN OkVal(Plain("Increment"), skip(lx1))
  ELSE IF peek(lx1) = "=" THEN OkVal(Plain("PlusEquals"), skip(lx1))
  ELSE OkVal(Plain("Plus"), lx1)

\* A variant that commits to `>>>` without looking for a following `=`.
gt_short(lx) ==
  LET lx1 == skip(lx) IN
  IF peek(lx1) = "=" THEN OkVal(Plain("GreaterThanEqualTo"), skip(lx1))
  ELSE IF peek(lx1) = ">"
       THEN LET lx2 == skip(lx1) IN
            IF peek(lx2) = "=" THEN OkVal(Plain("RightShiftEquals"), skip(lx2))
            ELSE IF peek(lx2) = ">" THEN OkVal(Plain("TripleRightShift"), skip(lx2))
            ELSE OkVal(Plain("RightShift"), lx2)
  ELSE OkVal(Plain("GreaterThan"), lx1)

gt(lx) ==
  LET lx1 == skip(lx) IN
  IF peek(lx1) = "=" THEN OkVal(Plain("GreaterThanEqualTo"), skip(lx1))
  ELSE IF peek(lx1) = ">"
       THEN LET lx2 == skip(lx1) IN
            IF peek(lx2) = "=" THEN OkVal(Plain("RightShiftEquals"), skip(lx2))
            ELSE IF peek(lx2) = ">"
                 THEN LET lx3 == skip(lx2) IN
                      IF peek(lx3) = "="
                      THEN OkVal(Plain("TripleRightShiftEquals"), skip(lx3))
                      ELSE OkVal(Plain("TripleRightShift"), lx3)
            ELSE OkVal(Plain("RightShift"), lx2)
  ELSE OkVal(Plain("GreaterThan"), lx1)

\* A variant whose fall-through arm consumes the character it looked at.
lt_eager(lx) ==
  LET lx1 == skip(lx) IN
  IF peek(lx1) = "<"
  THEN LET lx2 == skip(lx1) IN
       IF peek(lx2) = "=" THEN OkVal(Plain("LeftShiftEquals"), skip(lx2))
       ELSE OkVal(Plain("LeftShift"), lx2)
  ELSE IF peek(lx1) = "=" THEN OkVal(Plain("LessThanEqualTo"), skip(lx1))
  ELSE OkVal(Plain("LessThan"), skip(lx1))

lt(lx) ==
  LET lx1 == skip(lx) IN
  IF peek(lx1) = "<"
  THEN LET lx2 == skip(lx1) IN
       IF peek(lx2) = "=" THEN OkVal(Plain("LeftShiftEquals"), skip(lx2))
       ELSE OkVal(Plain("LeftShift"), lx2)
  ELSE IF peek(lx1) = "=" THEN OkVal(Plain("LessThanEqualTo"), skip(lx1))
  ELSE OkVal(Plain("LessThan"), lx1)

percent(lx) ==
  LET lx1 == skip(lx) IN
  IF peek(lx1) = "=" THEN OkVal(Plain("PercentEquals"), skip(lx1))
  ELSE OkVal(Plain("Percent"), lx1)

asterisk(lx) ==
  LET lx1 == skip(lx) IN
  IF peek(lx1) = "*"
  THEN LET lx2 == skip(lx1) IN
       IF peek(lx2) = "=" THEN OkVal(Plain("PowerEquals"), skip(lx2))
       ELSE OkVal(Plain("Power"), lx2)
  ELSE IF peek(lx1) = "=" THEN OkVal(Plain("TimesEquals"), skip(lx1))
  ELSE OkVal(Plain("Times"), lx1)

\* The TokenType the dispatcher hands to scalar() for a one-character punctuator.
ScalarType(c) ==
  CASE c = "{" -> "LeftBrace"
    [] c = "}" -> "RightBrace"
    [] c = "(" -> "LeftParen"
    [] c = ")" -> "RightParen"
    [] c = "]" -> "RightBracket"
    [] c = "[" -> "LeftBracket"
    [] c = ":" -> "Colon"
    [] c = "," -> "Comma"
    [] c = "~" -> "Tilde"
    [] c = ";" -> "Semicolon"
    [] c = "?" -> "Question"

\* ------------------------------------------------------------------------
\* Iterator::next, one action per arm of the dispatcher
\* ------------------------------------------------------------------------
NoneYet == [kind |-> "Start", tok |-> NoToken, err |-> NoError]
EndOfInput == [kind |-> "None", tok |-> NoToken, err |-> NoError]

Init ==
  /\ input \in Inputs
  /\ pos = 0
  /\ line = 1
  /\ column = 1
  /\ last = NoneYet
  /\ prev = Lexer_new
  /\ tokens = <<>>
  /\ errored = FALSE
  /\ calls = 0

\* next() returns Some(r): r is the item, r.lx the lexer state it leaves.
Return(r) ==
  /\ pos' = r.lx.pos
  /\ line' = r.lx.line
  /\ column' = r.lx.column
  /\ last' = [kind |-> r.kind, tok |-> r.tok, err |-> r.err]
  /\ prev' = cur
  /\ tokens' = IF r.kind = "Ok" THEN Append(tokens, r.tok) ELSE tokens
  /\ errored' = (errored \/ r.kind = "Err")
  /\ calls' = (calls + 1) % 2
  /\ UNCHANGED input

loc0 == get_location(cur)

NextEnd ==
  /\ peek(cur) = NoChar
  /\ last' = EndOfInput
  /\ prev' = cur
  /\ calls' = (calls + 1) % 2
  /\ UNCHANGED <<input, pos, line, column, tokens, errored>>

NextWs == is_ws(peek(cur)) /\ Return(MapToken(ws(cur), loc0))

NextDigit == is_digit(peek(cur)) /\ Return(MapToken(digit(cur), loc0))

NextSlash == peek(cur) = "/" /\ Return(slash(cur, loc0))

NextString ==
  \E quote \in {"Single", "Double"} :
    /\ peek(cur) = QuoteChar(quote)
    /\ Return(MapToken(string(cur, quote), loc0))

NextScalar ==
  /\ peek(cur) \in ScalarChars
  /\ Return(scalar(cur, loc0, Plain(ScalarType(peek(cur)))))

NextEqual == peek(cur) = "=" /\ Return(MapToken(equal(cur), loc0))

NextBang == peek(cur) = "!" /\ Return(MapToken(bang(cur), loc0))

NextAmpersand == peek(cur) = "&" /\ Return(MapToken(ampersand(cur), loc0))

NextPipe == peek(cur) = "|" /\ Return(MapToken(pipe(cur), loc0))

NextCaret == peek(cur) = "^" /\ Return(MapToken(caret(cur), loc0))

NextPlus == peek(cur) = "+" /\ Return(MapToken(plus(cur), loc0))

NextMinus == peek(cur) = "-" /\ Return(MapToken(minus(cur), loc0))

NextGt == peek(cur) = ">" /\ Return(MapToken(gt(cur), loc0))

NextLt == peek(cur) = "<" /\ Return(MapToken(lt(cur), loc0))

NextPeriod == peek(cur) = "." /\ Return(period(cur, loc0))

NextPercent == peek(cur) = "%" /\ Return(MapToken(percent(cur), loc0))

NextAsterisk == peek(cur) = "*" /\ Return(MapToken(asterisk(cur), loc0))

Dispatched ==
  WsChars \cup Digits \cup ScalarChars \cup OperatorLeads \cup {"/", SQ, DQ, "."}

NextUnexpected ==
  /\ peek(cur) # NoChar
  /\ peek(cur) \notin Dispatched
  /\ Return(Err(unexpected_char(cur, peek(cur)), cur))

Next ==
  \/ NextEnd
  \/ NextWs
  \/ NextDigit
  \/ NextSlash
  \/ NextString
  \/ NextScalar
  \/ NextEqual
  \/ NextBang
  \/ NextAmpersand
  \/ NextPipe
  \/ NextCaret
  \/ NextPlus
  \/ NextMinus
  \/ NextGt
  \/ NextLt
  \/ NextPeriod
  \/ NextPercent
  \/ NextAsterisk
  \/ NextUnexpected

Spec == Init /\ [][Next]_vars

\* The same machine on the short inputs over every character class, with a
\* caller that drains the iterator: it keeps calling next().
InitShort == Init /\ input \in SeqsUpTo(MixChars, MixLen)

FairSpec == InitShort /\ [][Next]_vars /\ WF_vars(Next)

TypeOK ==
  /\ pos \in 0..Len(input)
  /\ line >= 1
  /\ column >= 1
  /\ last.kind \in {"Start", "Ok", "Err", "None"}
  /\ errored \in BOOLEAN
  /\ calls \in {0, 1}

\* ------------------------------------------------------------------------
\* The raw text of a token (the Display of TokenType, which the tests compare
\* with the input)
\* ------------------------------------------------------------------------
OperatorTable ==
  { <<"Arrow", <<"=", ">">> >>, <<"TripleEquals", <<"=", "=", "=">> >>,
    <<"DoubleEquals", <<"=", "=">> >>, <<"Equals", <<"=">> >>,
    <<"NotTripleEquals", <<"!", "=", "=">> >>, <<"NotEquals", <<"!", "=">> >>,
    <<"Bang", <<"!">> >>,
    <<"LogicalAnd", <<"&", "&">> >>, <<"BinaryAndEquals", <<"&", "=">> >>,
    <<"BinaryAnd", <<"&">> >>,
    <<"LogicalOr", <<"|", "|">> >>, <<"BinaryOrEquals", <<"|", "=">> >>,
    <<"BinaryOr", <<"|">> >>,
    <<"BinaryXorEquals", <<"^", "=">> >>, <<"BinaryXor", <<"^">> >>,
    <<"Decrement", <<"-", "-">> >>, <<"MinusEquals", <<"-", "=">> >>,
    <<"Minus", <<"-">> >>,
    <<"Increment", <<"+", "+">> >>, <<"PlusEquals", <<"+", "=">> >>,
    <<"Plus", <<"+">> >>,
    <<"GreaterThanEqualTo", <<">", "=">> >>,
    <<"RightShiftEquals", <<">", ">", "=">> >>,
    <<"TripleRightShiftEquals", <<">", ">", ">", "=">> >>,
    <<"TripleRightShift", <<">", ">", ">">> >>,
    <<"RightShift", <<">", ">">> >>, <<"GreaterThan", <<">">> >>,
    <<"LeftShiftEquals", <<"<", "<", "=">> >>, <<"LeftShift", <<"<", "<">> >>,
    <<"LessThanEqualTo", <<"<", "=">> >>, <<"LessThan", <<"<">> >>,
    <<"PercentEquals", <<"%", "=">> >>, <<"Percent", <<"%">> >>,
    <<"PowerEquals", <<"*", "*", "=">> >>, <<"Power", <<"*", "*">> >>,
    <<"TimesEquals", <<"*", "=">> >>, <<"Times", <<"*">> >>,
    <<"DivEqual", <<"/", "=">> >>, <<"Div", <<"/">> >>,
    <<"Ellipsis", <<".", ".", ".">> >>, <<"Period", <<".">> >> }
    \cup { <<ScalarType(c), <<c>> >> : c \in ScalarChars }

Spelling(name) == (CHOOSE e \in OperatorTable : e[1] = name)[2]

TokenText(typ) ==
  CASE typ.name = "Comment" /\ typ.style = "SingleLine" -> <<"/", "/">> \o typ.text
    [] typ.name = "Comment" /\ typ.style = "MultiLine" ->
         <<"/", "*">> \o typ.text \o <<"*", "/">>
    [] typ.name = "String" ->
         <<QuoteChar(typ.style)>> \o typ.text \o <<QuoteChar(typ.style)>>
    [] typ.name \in {"WhiteSpace", "Number"} -> typ.text
    [] OTHER -> Spelling(typ.name)

RECURSIVE Flatten(_)
Flatten(toks) ==
  IF toks = <<>> THEN <<>> ELSE TokenText(Head(toks).typ) \o Flatten(Tail(toks))

\* ------------------------------------------------------------------------
\* The most recent call of next(), seen from the input
\* ------------------------------------------------------------------------
Called == last.kind # "Start"
\* the input that was left when the call was made, and what the call consumed
Remaining == SubSeq(input, prev.pos + 1, Len(input))
Consumed == SubSeq(input, prev.pos + 1, pos)
Lead == IF Remaining = <<>> THEN NoChar ELSE Remaining[1]
IsPrefix(s, r) == Len(s) <= Len(r) /\ SubSeq(r, 1, Len(s)) = s
ReturnedToken(name) == last.kind = "Ok" /\ last.tok.typ.name = name
ReturnedError(kind) == last.kind = "Err" /\ last.err.kind = kind

\* ------------------------------------------------------------------------
\* The lexical grammar of the specification, read off the input alone
\* ------------------------------------------------------------------------
At(i) == IF i \in 1..Len(input) THEN input[i] ELSE NoChar

\* last index of the longest run of characters of S that starts at i (i-1: none)
RECURSIVE RunEnd(_, _)
RunEnd(i, S) == IF At(i) \in S THEN RunEnd(i + 1, S) ELSE i - 1

\* last index of the longest run of characters outside S that starts at i
RECURSIVE RunEndNot(_, _)
RunEndNot(i, S) ==
  IF At(i) # NoChar /\ At(i) \notin S THEN RunEndNot(i + 1, S) ELSE i - 1

\* Scan of a string body from index i of r, one unit at a time: a character, or
\* a backslash with the character after it (with CR LF after it, for a CR LF
\* line continuation).  Result: how the body ends and where.
RECURSIVE StrScan(_, _, _)
StrScan(r, i, q) ==
  IF i > Len(r) THEN [kind |-> "eof", at |-> i]
  ELSE IF r[i] = BSL
       THEN IF i + 1 > Len(r) THEN [kind |-> "eof", at |-> i + 1]
            ELSE IF r[i + 1] = CR /\ i + 2 <= Len(r) /\ r[i + 2] = LF
                 THEN StrScan(r, i + 3, q)
                 ELSE StrScan(r, i + 2, q)
  ELSE IF r[i] = q THEN [kind |-> "close", at |-> i]
  ELSE IF r[i] \in LineTerminators THEN [kind |-> "terminator", at |-> i]
  ELSE StrScan(r, i + 1, q)

\* number := digits? ('.' digit digits?)? ([eE] [+-]? digit digits?)?
\* last index of the number that starts at i, 0 when it is malformed
NumberEnd(i) ==
  LET a == RunEnd(i, Digits)
      b == IF At(a + 1) = "." THEN RunEnd(a + 2, Digits) ELSE a
      fracOk == At(a + 1) = "." => b >= a + 2
      s == IF At(b + 2) \in {"+", "-"} THEN b + 3 ELSE b + 2
      c == IF At(b + 1) \in {"e", "E"} THEN RunEnd(s, Digits) ELSE b
      expOk == At(b + 1) \in {"e", "E"} => c >= s
  IN IF fracOk /\ expOk /\ b >= i THEN c ELSE 0

\* index of the `/` of the first `*` `/` pair at or after index i, 0 when none
BlockClose(i) ==
  LET K == {k \in i..(Len(input) - 1) : input[k] = "*" /\ input[k + 1] = "/"}
  IN IF K = {} THEN 0 ELSE (CHOOSE k \in K : \A m \in K : k <= m) + 1

PunctuatorEnd(i) ==
  LET r == SubSeq(input, i, Len(input))
      L == {Len(e[2]) : e \in {e \in OperatorTable : IsPrefix(e[2], r)}}
  IN IF L = {} THEN 0 ELSE i + (CHOOSE n \in L : \A m \in L : m <= n) - 1

\* last index of the lexeme that starts at i, 0 when no legal lexeme starts there
LexemeEnd(i) ==
  LET c == At(i) IN
  IF c \in WsChars THEN RunEnd(i, WsChars)
  ELSE IF c \in Digits \/ (c = "." /\ At(i + 1) \in Digits) THEN NumberEnd(i)
  ELSE IF c = "/" /\ At(i + 1) = "/" THEN RunEndNot(i + 2, LineTerminators)
  ELSE IF c = "/" /\ At(i + 1) = "*" THEN BlockClose(i + 2)
  ELSE IF c \in {DQ, SQ}
       THEN LET e == StrScan(input, i + 1, c) IN
            IF e.kind = "close" THEN e.at ELSE 0
  ELSE IF c = "." /\ At(i + 1) = "." THEN (IF At(i + 2) = "." THEN i + 2 ELSE 0)
  ELSE PunctuatorEnd(i)

RECURSIVE LegalFrom(_)
LegalFrom(i) ==
  \/ i > Len(input)
  \/ LexemeEnd(i) # 0 /\ LegalFrom(LexemeEnd(i) + 1)

LegalInput == LegalFrom(1)

\* ------------------------------------------------------------------------
\* Claims
\* ------------------------------------------------------------------------

\* C1: round trip.  For an input made only of legally-formed lexemes no call
\* of next() returns an error, and once next() has signalled end of input the
\* raw texts of the tokens returned, concatenated in order, are the input.
C1_RoundTrip ==
  LegalInput =>
    /\ last.kind # "Err"
    /\ last.kind = "None" => Flatten(tokens) = input

\* C2: errors are terminal.  Once a call of next() has returned an error, a
\* later call returns no item.
C2_ErrorsTerminal == [][errored => last'.kind = "None"]_vars

\* C3: the output sequence is finite.  Calling next() again and again
\* eventually signals end of input.
C3_Finite == <>(last.kind = "None")

\* The operator family of a lead character: the spellings that start with it.
Family(c) == {e[2] : e \in {e \in OperatorTable : e[2][1] = c}}

\* the longest member of F that is a prefix of r
Longest(F, r) ==
  CHOOSE s \in F : IsPrefix(s, r) /\ \A u \in F : IsPrefix(u, r) => Len(u) <= Len(s)

StartsComment == IsPrefix(<<"/", "/">>, Remaining) \/ IsPrefix(<<"/", "*">>, Remaining)

\* C4: longest match.  A call that dispatches on an operator lead character
\* (and does not open a comment) returns the token of the longest member of
\* that character's family that is a prefix of the remaining input.
C4_LongestMatch ==
  (Called /\ Lead \in OperatorLeads \cup {"/"} /\ ~StartsComment) =>
    /\ last.kind = "Ok"
    /\ Spelling(last.tok.typ.name) = Longest(Family(Lead), Remaining)

C4_Witness ==
  /\ ReturnedToken("TripleRightShiftEquals")
  /\ Remaining = <<">", ">", ">", "=">>

\* C5: the text of a Number token that Lexer::digit returns (a number that
\* begins with a digit, such as 0.123 or 10e+42) is the source substring the
\* call consumed.
C5_NumberText ==
  (ReturnedToken("Number") /\ Lead \in Digits) => last.tok.typ.text = Consumed

\* C6: a call on `//` returns a SingleLine comment whose text is every
\* character after `//` up to the first line terminator or the end of input,
\* and leaves the cursor there.
C6_LineComment ==
  (Called /\ IsPrefix(<<"/", "/">>, Remaining)) =>
    LET e == RunEndNot(prev.pos + 3, LineTerminators) IN
    /\ ReturnedToken("Comment")
    /\ last.tok.typ.style = "SingleLine"
    /\ last.tok.typ.text = SubSeq(input, prev.pos + 3, e)
    /\ pos = e

\* C7: a call on `/*` body `*/` rest, `*/` being the first such pair after the
\* opening `/*`, returns a MultiLine comment whose text is body and leaves the
\* cursor at the first character of rest.
C7_BlockComment ==
  (Called /\ IsPrefix(<<"/", "*">>, Remaining) /\ BlockClose(prev.pos + 3) # 0) =>
    LET k == BlockClose(prev.pos + 3) IN
    /\ ReturnedToken("Comment")
    /\ last.tok.typ.style = "MultiLine"
    /\ last.tok.typ.text = SubSeq(input, prev.pos + 3, k - 2)
    /\ pos = k

\* A number that starts at index i and ends with the input in the middle of
\* its fractional part (`1.`) or of its exponent part (`1e`, `1e+`).
TruncatedNumber(i) ==
  LET n == Len(input)
      a == RunEnd(i, Digits)
      b == IF At(a + 1) = "." THEN RunEnd(a + 2, Digits) ELSE a
  IN /\ At(i) \in Digits \/ (At(i) = "." /\ At(i + 1) \in Digits)
     /\ \/ At(a + 1) = "." /\ a + 1 = n
        \/ /\ At(a + 1) = "." => b >= a + 2
           /\ At(b + 1) \in {"e", "E"}
           /\ b + 1 = n \/ (At(b + 2) \in {"+", "-"} /\ b + 2 = n)

\* The remaining input ends in the middle of the lexeme it starts with.
Truncated ==
  \/ Lead \in {DQ, SQ} /\ StrScan(Remaining, 2, Lead).kind = "eof"
  \/ IsPrefix(<<"/", "*">>, Remaining) /\ BlockClose(prev.pos + 3) = 0
  \/ TruncatedNumber(prev.pos + 1)
  \/ Remaining = <<".", ".">>

\* C8: a call made on input that ends in the middle of a lexeme returns
\* UnexpectedEndOfInput.
C8_TruncatedIsEof == (Called /\ Truncated) => ReturnedError("UnexpectedEndOfInput")

\* C9: a call on a terminated string returns a String token of that quote
\* style whose text is the source between the opening quote and the first
\* unescaped quote of the same style, backslashes included, and leaves the
\* cursor just past the closing quote.
C9_StringText ==
  (Called /\ Lead \in {DQ, SQ} /\ StrScan(Remaining, 2, Lead).kind = "close") =>
    LET k == StrScan(Remaining, 2, Lead).at IN
    /\ ReturnedToken("String")
    /\ QuoteChar(last.tok.typ.style) = Lead
    /\ last.tok.typ.text = SubSeq(Remaining, 2, k - 1)
    /\ pos = prev.pos + k

C9_Witness ==
  /\ ReturnedToken("String")
  /\ \E i \in 1..Len(last.tok.typ.text) : last.tok.typ.text[i] = BSL
  /\ \E i \in 1..Len(last.tok.typ.text) : last.tok.typ.text[i] \in {DQ, SQ}

\* C10: a call on a string whose body reaches an unescaped line terminator
\* returns UnexpectedCharacter carrying that character, and no token.
C10_StringLineTerminator ==
  (Called /\ Lead \in {DQ, SQ} /\ StrScan(Remaining, 2, Lead).kind = "terminator") =>
    /\ ReturnedError("UnexpectedCharacter")
    /\ last.err.c = Remaining[StrScan(Remaining, 2, Lead).at]

C10_Witness ==
  /\ Lead \in {DQ, SQ}
  /\ ReturnedError("UnexpectedCharacter")
  /\ last.err.c = CR
  /\ Len(Consumed) >= 3

\* ------------------------------------------------------------------------
\* Positions
\* ------------------------------------------------------------------------
\* The location reached from loc by consuming the characters of s, when the
\* characters of T start a new line and every other character a new column.
RECURSIVE Advance(_, _, _)
Advance(loc, s, T) ==
  IF s = <<>> THEN loc
  ELSE Advance(IF Head(s) \in T THEN [line |-> loc.line + 1, column |-> 1]
               ELSE [line |-> loc.line, column |-> loc.column + 1],
               Tail(s), T)

\* C11: position tracking.  Each consumed line terminator (U+000A, U+000D,
\* U+2028, U+2029) adds one to the line and resets the column to 1, each other
\* consumed character adds one to the column: after a call the tracker is
\* where these rules take it over the characters the call consumed.
C11_PositionTracking ==
  Called =>
    get_location(cur) = Advance(get_location(prev), Consumed, LineTerminators)

LocLeq(a, b) == a.line < b.line \/ (a.line = b.line /\ a.column <= b.column)

\* C12: position monotonicity.  In the sequence of tokens returned, each
\* token's (line, column) is at least the previous token's, lexicographically.
C12_PositionMonotone ==
  \A i \in 1..(Len(tokens) - 1) : LocLeq(tokens[i], tokens[i + 1])

C12_Witness ==
  \E i \in 1..(Len(tokens) - 1) :
    /\ tokens[i + 1].line > tokens[i].line
    /\ tokens[i + 1].column < tokens[i].column

\* C13: the position recorded in a token is the tracker's position when the
\* call was made, before any character of the token was consumed, however many
\* characters the call went on to consume; a token returned from the start of
\* the input is at line 1, column 1.
C13_TokenPosition ==
  last.kind = "Ok" =>
    /\ last.tok.line = prev.line /\ last.tok.column = prev.column
    /\ last.tok = tokens[Len(tokens)]
    /\ prev.pos = 0 => (last.tok.line = 1 /\ last.tok.column = 1)

C13_Witness ==
  /\ last.kind = "Ok"
  /\ prev.pos > 0
  /\ last.tok.column > 1
  /\ Len(Consumed) >= 2

\* The tracker's location of the character at index k of the input, reckoned
\* from the location at which the call was made.
LocOf(k) == Advance(get_location(prev), SubSeq(input, prev.pos + 1, k - 1), {LF})

\* C14: an UnexpectedCharacter(position, c) carries the position of the
\* character c itself: c is the character at which the call stopped (the last
\* one it consumed, or the one it left as lookahead) and the position is that
\* character's, not the one after it.
C14_ErrorPosition ==
  ReturnedError("UnexpectedCharacter") =>
    \E k \in {pos, pos + 1} :
      /\ k > prev.pos
      /\ At(k) = last.err.c
      /\ [line |-> last.err.line, column |-> last.err.column] = LocOf(k)

\* C15: a call on `.` followed by a digit, where a well-formed number starts,
\* returns one Number token that covers the `.`, the digits after it and the
\* exponent if there is one: it consumes exactly that number and its text is
\* the number as written.
C15_LeadingPeriodNumber ==
  (Called /\ Lead = "." /\ At(prev.pos + 2) \in Digits
     /\ NumberEnd(prev.pos + 1) # 0) =>
    /\ ReturnedToken("Number")
    /\ pos = NumberEnd(prev.pos + 1)
    /\ last.tok.typ.text = Consumed

\* C16: a call on a whitespace character returns one WhiteSpace token whose
\* text is the whole run of whitespace characters from the cursor, and the
\* character after the token, if any, is not whitespace.
C16_WhitespaceRun ==
  (Called /\ Lead \in WsChars) =>
    LET e == RunEnd(prev.pos + 1, WsChars) IN
    /\ ReturnedToken("WhiteSpace")
    /\ last.tok.typ.text = SubSeq(input, prev.pos + 1, e)
    /\ pos = e
    /\ ~is_ws(At(pos + 1))

C16_Witness ==
  /\ ReturnedToken("WhiteSpace")
  /\ Len(last.tok.typ.text) >= 2
  /\ HT \in {last.tok.typ.text[i] : i \in 1..Len(last.tok.typ.text)}
  /\ pos < Len(input)

\* C17: the scanner never skips invalid input.  When a call returns
\* UnexpectedCharacter(position, c), c has not been consumed: it is still the
\* next character of the stream.
C17_OffenderNotConsumed ==
  ReturnedError("UnexpectedCharacter") => peek(cur) = last.err.c

\* C18: the operator and punctuator routines are total.  A call that
\* dispatches on one of { } ( ) [ ] : , ; ~ ? = ! & | ^ + - * % > < returns a
\* token, whatever follows, and consumes exactly the characters of that
\* token's spelling.
C18_OperatorsTotal ==
  (Called /\ Lead \in ScalarChars \cup OperatorLeads) =>
    /\ last.kind = "Ok"
    /\ Consumed = Spelling(last.tok.typ.name)

C18_Witness ==
  /\ ReturnedToken("LessThan")
  /\ peek(cur) \in OperatorLeads

\* Scanning the body of a string from index j of r, unit by unit, arrives at
\* index i as the start of a unit (before any closing quote or unescaped line
\* terminator).
RECURSIVE StrReach(_, _, _, _)
StrReach(r, j, q, i) ==
  IF j = i THEN TRUE
  ELSE IF j > i \/ j > Len(r) THEN FALSE
  ELSE IF r[j] = BSL
       THEN StrReach(r, IF j + 2 <= Len(r) /\ r[j + 1] = CR /\ r[j + 2] = LF
                        THEN j + 3 ELSE j + 2, q, i)
  ELSE IF r[j] = q \/ r[j] \in LineTerminators THEN FALSE
  ELSE StrReach(r, j + 1, q, i)

\* C19: line continuations.  In a string, a backslash followed by CR and LF
\* is one unit: all three characters are consumed and kept in the text, and
\* the LF is not reported as an unescaped line terminator.  A backslash
\* followed by a lone CR, LF, U+2028 or U+2029 takes that one terminator only:
\* it is kept in the text after the backslash, and a line terminator right
\* after it is reported as UnexpectedCharacter.
C19_LineContinuation ==
  (Called /\ Lead \in {DQ, SQ}) =>
    \A i \in 2..(Len(Remaining) - 1) :
      (StrReach(Remaining, 2, Lead, i) /\ Remaining[i] = BSL
         /\ Remaining[i + 1] \in LineTerminators) =>
        IF Remaining[i + 1] = CR /\ i + 2 <= Len(Remaining) /\ Remaining[i + 2] = LF
        THEN /\ Len(Consumed) >= i + 2
             /\ ~(ReturnedError("UnexpectedCharacter") /\ Len(Consumed) = i + 2)
             /\ ReturnedToken("String") =>
                  SubSeq(last.tok.typ.text, i - 1, i + 1) = <<BSL, CR, LF>>
        ELSE /\ Len(Consumed) >= i + 1
             /\ ReturnedToken("String") =>
                  SubSeq(last.tok.typ.text, i - 1, i) = <<BSL, Remaining[i + 1]>>
             /\ (i + 2 <= Len(Remaining) /\ Remaining[i + 2] \in LineTerminators) =>
                  /\ ReturnedError("UnexpectedCharacter")
                  /\ last.err.c = Remaining[i + 2]
                  /\ Len(Consumed) = i + 2

C19_Witness ==
  /\ ReturnedToken("String")
  /\ \E i \in 1..(Len(last.tok.typ.text) - 2) :
       SubSeq(last.tok.typ.text, i, i + 2) = <<BSL, CR, LF>>

\* C20: progress.  A call that returns a token has consumed at least one
\* character, so the tokens returned never outnumber the characters of the
\* input; a call that signals end of input is made at the end of the input,
\* consumes nothing and leaves line and column as they were.
C20_Progress ==
  /\ last.kind = "Ok" => pos > prev.pos
  /\ Len(tokens) <= Len(input)
  /\ last.kind = "None" =>
       /\ prev.pos = Len(input)
       /\ cur = prev

C20_Witness ==
  /\ last.kind = "None"
  /\ ~errored
  /\ Len(tokens) >= 2
  /\ Len(tokens) < Len(input)

====
